---- MODULE Spec2Model ----
(***************************************************************************)
(* Run State Projector of the ml-pipeline UI.                              *)
(*                                                                         *)
(* transformRun (lib/types.ts) turns one raw status response into the      *)
(* enriched run the components render; PhaseTimeline merges the phase      *)
(* list with PHASE_META.  Both are pure functions and are modelled as      *)
(* operators; the state machine draws a raw response, projects it and      *)
(* renders the timeline.                                                   *)
(*                                                                         *)
(* Three more state machines share the module, each with its own           *)
(* specification: usePipeline with its two intervals, its requests in      *)
(* flight and the buttons that call it (SpecPoll), the plot fetch of       *)
(* VisualizationPanel (SpecPanel), and one call of startPipeline           *)
(* (SpecCall).  A specification leaves the variables of the others at      *)
(* their idle value.                                                       *)
(*                                                                         *)
(* JavaScript values that may be undefined, null, a number or a string     *)
(* are records [k, n, s]: k is the type tag, n the number, s the string.   *)
(* Durations are whole seconds.                                            *)
(***************************************************************************)
EXTENDS Integers, Sequences, FiniteSets, Bags, TLC

VARIABLES raw, view, timeline, pc, hook, panel, call

vars == <<raw, view, timeline, pc, hook, panel, call>>

-----------------------------------------------------------------------------
(* JavaScript values and the coercions transformRun relies on *)

Undefined == [k |-> "undefined", n |-> 0, s |-> ""]

Null == [k |-> "null", n |-> 0, s |-> ""]

Num(i) == [k |-> "num", n |-> i, s |-> ""]

Str(t) == [k |-> "str", n |-> 0, s |-> t]

\* Number("...") yields NaN for text that is not a decimal literal
NaN == -1

Digits == <<"0", "1", "2", "3", "4", "5", "6", "7", "8", "9">>

IsDigit(c) == \E d \in 1..10 : Digits[d] = c

DigitVal(c) == (CHOOSE d \in 1..10 : Digits[d] = c) - 1

RECURSIVE ParseDigits(_, _)
ParseDigits(t, acc) ==
  IF Len(t) = 0 THEN acc
  ELSE LET c == SubSeq(t, 1, 1) IN
       IF IsDigit(c) THEN ParseDigits(SubSeq(t, 2, Len(t)), acc * 10 + DigitVal(c))
       ELSE NaN

\* ToNumber, as applied by the relational operator `>`
ToNumber(v) ==
  CASE v.k = "num" -> v.n
    [] v.k = "null" -> 0
    [] v.k = "str" -> ParseDigits(v.s, 0)
    [] OTHER -> NaN

\* v > 0
GreaterThanZero(v) == ToNumber(v) # NaN /\ ToNumber(v) > 0

\* v != null
NotNullish(v) == v.k \notin {"undefined", "null"}

\* v ?? d
Coalesce(v, d) == IF NotNullish(v) THEN v ELSE d

\* truthiness of v
Truthy(v) ==
  CASE v.k = "num" -> v.n # 0
    [] v.k = "str" -> v.s # ""
    [] OTHER -> FALSE

\* String(v), as applied by template literals and by string `+`
ToStr(v) ==
  CASE v.k = "num" -> ToString(v.n)
    [] v.k = "str" -> v.s
    [] v.k = "null" -> "null"
    [] OTHER -> "undefined"

\* a + b where b is a number
Plus(a, b) ==
  IF a.k = "str" THEN Str(a.s \o ToStr(b))
  ELSE Num(ToNumber(a) + b.n)

-----------------------------------------------------------------------------
(* lib/types.ts *)

PHASE_ORDER ==
  << "data_profiling", "feature_engineering", "visualization",
     "model_training", "evaluation", "critic_review" >>

\* PHASE_ORDER.indexOf(name); 0 stands for the -1 of the 0-based source
indexOf(name) ==
  IF \E i \in 1..Len(PHASE_ORDER) : PHASE_ORDER[i] = name
  THEN CHOOSE i \in 1..Len(PHASE_ORDER) : PHASE_ORDER[i] = name
  ELSE 0

\* the keys a phase_timings object of the model can hold, in entry order
TimingKeys ==
  << "data_profiling", "feature_engineering", "visualization",
     "model_training", "evaluation", "critic_review",
     "critic_review_1", "critic_review_2", "evaluation_2" >>

TimingKeySet == {TimingKeys[i] : i \in 1..Len(TimingKeys)}

\* {}
EmptyTimings == [key \in TimingKeySet |-> Undefined]

\* k.startsWith(prefix)
startsWith(key, prefix) ==
  Len(key) >= Len(prefix) /\ SubSeq(key, 1, Len(prefix)) = prefix

\* the for-loop over Object.entries(timings), from entry i on; an absent
\* key reads as Undefined and is no entry
RECURSIVE SumCritic(_, _, _)
SumCritic(timings, i, total) ==
  IF i > Len(TimingKeys) THEN total
  ELSE LET key == TimingKeys[i]
           v == timings[key]
       IN IF startsWith(key, "critic_review_") /\ v.k = "num"
          THEN SumCritic(timings, i + 1, Plus(total, v))
          ELSE SumCritic(timings, i + 1, total)

\* variant: the bare critic_review timing is left out of the total
criticTotalCompositeOnly(timings) == SumCritic(timings, 1, Num(0))

criticTotal(timings) ==
  SumCritic(timings, 1, Coalesce(timings["critic_review"], Num(0)))

\* x === "text"
StrictEq(v, t) == v.k = "str" /\ v.s = t

currentPhase(r) == Coalesce(r.current_phase, Str(""))

currentIdx(r) ==
  IF currentPhase(r).k = "str" THEN indexOf(currentPhase(r).s) ELSE 0

isRunning(r) == r.status = "running"

isFinalized(r) == StrictEq(currentPhase(r), "finalized")

\* variant: the first loop-back does not count as looping
isLoopingAfterFirst(r) ==
  /\ isRunning(r)
  /\ ToNumber(Coalesce(r.loop_count, Num(0))) > 1
  /\ ~ isFinalized(r)

\* variant: a loop count alone counts as looping, whatever the status
isLoopingAnyStatus(r) ==
  /\ GreaterThanZero(Coalesce(r.loop_count, Num(0)))
  /\ ~ isFinalized(r)

isLooping(r) ==
  /\ isRunning(r)
  /\ GreaterThanZero(Coalesce(r.loop_count, Num(0)))
  /\ ~ isFinalized(r)

\* variant: a second attempt recorded under evaluation_2 replaces the
\* bare evaluation timing
durationLatestAttempt(timings, key) ==
  IF key = "critic_review"
  THEN (IF GreaterThanZero(criticTotal(timings)) THEN criticTotal(timings)
        ELSE Undefined)
  ELSE IF key = "evaluation" /\ timings["evaluation_2"].k = "num"
       THEN timings["evaluation_2"] ELSE timings[key]

\* const duration = key === "critic_review" ? ... : timings[key]
duration(timings, key) ==
  IF key = "critic_review"
  THEN (IF GreaterThanZero(criticTotal(timings)) THEN criticTotal(timings)
        ELSE Undefined)
  ELSE timings[key]

\* variant: finalization alone is no evidence that critic_review ran
hasRunTimedOnly(r, timings, key) ==
  NotNullish(duration(timings, key)) /\ GreaterThanZero(duration(timings, key))

\* variant: any recorded timing, zero included, counts as having run
hasRunAnyTiming(r, timings, key) ==
  \/ NotNullish(duration(timings, key))
  \/ key = "critic_review" /\ isFinalized(r)

hasRun(r, timings, key) ==
  \/ NotNullish(duration(timings, key)) /\ GreaterThanZero(duration(timings, key))
  \/ key = "critic_review" /\ isFinalized(r)

\* variant: the currentIdx >= 0 guard is missing
classifyNoIndexGuard(r, timings, idx) ==
  LET key == PHASE_ORDER[idx]
      isCurrent == StrictEq(currentPhase(r), key)
  IN IF isCurrent /\ isRunning(r) THEN "running"
     ELSE IF hasRun(r, timings, key)
          THEN (IF isLooping(r) /\ idx > currentIdx(r) /\ key # "critic_review"
                THEN "will_rerun" ELSE "completed")
          ELSE "pending"

\* variant: critic_review is not exempt from will_rerun
classifyCriticToo(r, timings, idx) ==
  LET key == PHASE_ORDER[idx]
      isCurrent == StrictEq(currentPhase(r), key)
  IN IF isCurrent /\ isRunning(r) THEN "running"
     ELSE IF hasRun(r, timings, key)
          THEN (IF isLooping(r) /\ currentIdx(r) >= 1 /\ idx > currentIdx(r)
                THEN "will_rerun" ELSE "completed")
          ELSE "pending"

\* variant: a phase that ran before is classified by that, current or not
classifyRanFirst(r, timings, idx) ==
  LET key == PHASE_ORDER[idx]
      isCurrent == StrictEq(currentPhase(r), key)
  IN IF hasRun(r, timings, key)
     THEN (IF isLooping(r) /\ currentIdx(r) >= 1 /\ idx > currentIdx(r)
              /\ key # "critic_review"
           THEN "will_rerun" ELSE "completed")
     ELSE IF isCurrent /\ isRunning(r) THEN "running" ELSE "pending"

\* the status the callback of PHASE_ORDER.map assigns to the phase at idx
classify(r, timings, idx) ==
  LET key == PHASE_ORDER[idx]
      isCurrent == StrictEq(currentPhase(r), key)
  IN IF isCurrent /\ isRunning(r) THEN "running"
     ELSE IF hasRun(r, timings, key)
          THEN (IF isLooping(r) /\ currentIdx(r) >= 1 /\ idx > currentIdx(r)
                   /\ key # "critic_review"
                THEN "will_rerun" ELSE "completed")
          ELSE "pending"

\* variant: only the phases with a recorded duration get an entry
mapPhasesTimedOnly(r, timings) ==
  SelectSeq([idx \in 1..Len(PHASE_ORDER) |->
               [phase |-> PHASE_ORDER[idx],
                status |-> classify(r, timings, idx),
                duration_seconds |-> duration(timings, PHASE_ORDER[idx])]],
            LAMBDA p : p.duration_seconds.k # "undefined")

\* const phases = PHASE_ORDER.map(...)
mapPhases(r, timings) ==
  [idx \in 1..Len(PHASE_ORDER) |->
     [phase |-> PHASE_ORDER[idx],
      status |-> classify(r, timings, idx),
      duration_seconds |-> duration(timings, PHASE_ORDER[idx])]]

\* error entries: a bare string [k = "str", s], or an object [k = "obj"]
\* with the optional fields phase and error
ErrStr(t) == [k |-> "str", s |-> t, phase |-> Undefined, error |-> Undefined]

ErrObj(ph, er) == [k |-> "obj", s |-> "", phase |-> ph, error |-> er]

\* JSON.stringify of one member value
JsonValue(v) ==
  CASE v.k = "num" -> ToString(v.n)
    [] v.k = "str" -> "\"" \o v.s \o "\""
    [] OTHER -> "null"

\* JSON.stringify(e) for an object entry: undefined members are left out
JsonStringify(e) ==
  LET ph == IF e.phase.k = "undefined" THEN ""
            ELSE "\"phase\":" \o JsonValue(e.phase)
      er == IF e.error.k = "undefined" THEN ""
            ELSE "\"error\":" \o JsonValue(e.error)
      sep == IF ph # "" /\ er # "" THEN "," ELSE ""
  IN "{" \o ph \o sep \o er \o "}"

\* e.phase ? `[${e.phase}] ${msg}` : msg, with msg = e.error || JSON.stringify(e)
renderError(e) ==
  LET msg == IF Truthy(e.error) THEN ToStr(e.error) ELSE JsonStringify(e)
  IN IF Truthy(e.phase) THEN "[" \o ToStr(e.phase) \o "] " \o msg ELSE msg

\* variant: an error whose phase tag matches no phase lands on the last phase
markErroredOrLast(phases, tag) ==
  IF \E i \in 1..Len(phases) : StrictEq(tag, phases[i].phase)
  THEN [i \in 1..Len(phases) |->
          IF StrictEq(tag, phases[i].phase)
          THEN [phases[i] EXCEPT !.status = "error"] ELSE phases[i]]
  ELSE [phases EXCEPT ![Len(phases)].status = "error"]

\* variant: a phase shown as running keeps its status
markErroredUnlessRunning(phases, tag) ==
  [i \in 1..Len(phases) |->
     IF StrictEq(tag, phases[i].phase) /\ phases[i].status # "running"
     THEN [phases[i] EXCEPT !.status = "error"]
     ELSE phases[i]]

\* const p = phases.find(ph => ph.phase === e.phase); if (p) p.status = "error"
markErrored(phases, tag) ==
  IF \E i \in 1..Len(phases) : StrictEq(tag, phases[i].phase)
  THEN LET i == CHOOSE j \in 1..Len(phases) :
                  /\ StrictEq(tag, phases[j].phase)
                  /\ \A l \in 1..(j - 1) : ~ StrictEq(tag, phases[l].phase)
       IN [phases EXCEPT ![i].status = "error"]
  ELSE phases

\* variant: an object entry without a phase tag is not flattened
RECURSIVE attachErrorsTaggedOnly(_, _, _)
attachErrorsTaggedOnly(rawErrors, i, acc) ==
  IF i > Len(rawErrors) THEN acc
  ELSE LET e == rawErrors[i] IN
       IF e.k = "str"
       THEN attachErrorsTaggedOnly(rawErrors, i + 1,
              [acc EXCEPT !.errorStrings = Append(@, e.s)])
       ELSE IF e.k = "obj" /\ Truthy(e.phase)
       THEN attachErrorsTaggedOnly(rawErrors, i + 1,
              [phases |-> markErrored(acc.phases, e.phase),
               errorStrings |-> Append(acc.errorStrings, renderError(e))])
       ELSE attachErrorsTaggedOnly(rawErrors, i + 1, acc)

\* the for-loop over rawErrors, from entry i on; acc = [phases, errorStrings]
RECURSIVE attachErrors(_, _, _)
attachErrors(rawErrors, i, acc) ==
  IF i > Len(rawErrors) THEN acc
  ELSE LET e == rawErrors[i] IN
       IF e.k = "str"
       THEN attachErrors(rawErrors, i + 1,
              [acc EXCEPT !.errorStrings = Append(@, e.s)])
       ELSE IF e.k = "obj"
       THEN attachErrors(rawErrors, i + 1,
              [phases |-> IF Truthy(e.phase) THEN markErrored(acc.phases, e.phase)
                          ELSE acc.phases,
               errorStrings |-> Append(acc.errorStrings, renderError(e))])
       ELSE attachErrors(rawErrors, i + 1, acc)

\* an optional object or array member: present says whether it is set
\* (truthy), typed whether it is the object or array the type declares
Absent(empty) == [present |-> FALSE, typed |-> TRUE, value |-> empty]

Present(v) == [present |-> TRUE, typed |-> TRUE, value |-> v]

\* a non-zero number where an object or an array is declared; its
\* properties read as undefined and it has no entries
Mistyped(empty) == [present |-> TRUE, typed |-> FALSE, value |-> empty]

\* x || fallback for an optional object or array
OrElse(x, fallback) == IF x.present THEN x.value ELSE fallback

\* for (const e of rawErrors) raises a TypeError when rawErrors is not
\* iterable
throws(r) == r.errors.present /\ ~ r.errors.typed

\* the value transformRun returns when it returns
transformRun(r) ==
  LET timings == OrElse(r.phase_timings, EmptyTimings)
      rawErrors == OrElse(r.errors, <<>>)
      res == attachErrors(rawErrors, 1,
               [phases |-> mapPhases(r, timings), errorStrings |-> <<>>])
  IN [pipeline_id |-> r.pipeline_id,
      status |-> r.status,
      current_phase |-> r.current_phase,
      phases |-> res.phases,
      loop_count |-> r.loop_count,
      errors |-> IF Len(res.errorStrings) > 0 THEN Present(res.errorStrings)
                 ELSE Absent(<<>>)]

-----------------------------------------------------------------------------
(* components/pipeline/PhaseTimeline *)

\* phases.filter(p => p.phase === key)
matching(phases, key) == SelectSeq(phases, LAMBDA p : p.phase = key)

\* const timeline = PHASE_META.map(...); PHASE_META lists the phases in
\* the order of PHASE_ORDER
PhaseTimeline(phases) ==
  [i \in 1..Len(PHASE_ORDER) |->
     LET m == matching(phases, PHASE_ORDER[i])
         last == IF Len(m) > 0 THEN Present(m[Len(m)])
                 ELSE Absent([phase |-> "", status |-> "",
                              duration_seconds |-> Undefined])
     IN [key |-> PHASE_ORDER[i],
         status |-> IF last.present /\ last.value.status # ""
                    THEN last.value.status ELSE "pending",
         duration |-> IF last.present THEN last.value.duration_seconds
                      ELSE Undefined,
         count |-> Len(m)]]

-----------------------------------------------------------------------------
(* The raw responses the model draws *)

MaxLoop == 1

MaxErrors == 2

PipelineStatus ==
  {"pending", "running", "completed", "completed_with_errors", "failed"}

PhaseKeys == {PHASE_ORDER[i] : i \in 1..Len(PHASE_ORDER)}

NonCritic == PhaseKeys \ {"critic_review"}

CriticKeys == {"critic_review", "critic_review_1", "critic_review_2"}

CurrentPhases ==
  {Undefined, Str("finalized"), Str("unknown_phase")} \cup {Str(p) : p \in PhaseKeys}

LoopCounts == {Undefined} \cup {Num(i) : i \in 0..MaxLoop}

\* a timing as the backend types it: absent, zero or positive seconds
PlainTimings == {Undefined, Num(0), Num(2)}

\* a timing as any JSON value
AnyTimings == {Undefined, Null, Num(0), Num(2), Num(3), Str("x"), Str("5")}

ErrorEntries ==
  { ErrStr("boom"),
    ErrObj(Str("evaluation"), Str("divide by zero")),
    ErrObj(Str("visualization"), Str("oom")),
    ErrObj(Str("feature_engineering"), Null),
    ErrObj(Str("critic_review"), Undefined),
    ErrObj(Undefined, Str("lost connection")),
    ErrObj(Str("unknown_phase"), Str("skipped")),
    ErrObj(Str(""), Str("")) }

RECURSIVE SeqsUpTo(_, _)
SeqsUpTo(S, n) ==
  IF n = 0 THEN {<<>>}
  ELSE LET shorter == SeqsUpTo(S, n - 1)
       IN shorter \cup {Append(q, e) : q \in {t \in shorter : Len(t) = n - 1}, e \in S}

Snapshot(st, cp, lc, pt, er) ==
  [pipeline_id |-> "run-1", status |-> st, current_phase |-> cp,
   loop_count |-> lc, phase_timings |-> pt, errors |-> er]

\* every status, current phase and loop count against every pattern of
\* plain timings of the five single-run phases
ClassifySnapshot(r) ==
  \E st \in PipelineStatus, cp \in CurrentPhases, lc \in LoopCounts,
     t \in [NonCritic -> PlainTimings], c \in {Undefined, Num(3)} :
    r = Snapshot(st, cp, lc,
          Present([key \in TimingKeySet |->
                     IF key \in NonCritic THEN t[key]
                     ELSE IF key = "critic_review" THEN c ELSE Undefined]),
          Absent(<<>>))

\* every JSON value under the bare and the composite critic keys
CriticSnapshot(r) ==
  \E st \in {"running", "completed"},
     cp \in {Undefined, Str("finalized"), Str("critic_review"),
             Str("feature_engineering")},
     lc \in {Num(0), Num(1)},
     c \in [CriticKeys -> AnyTimings] :
    r = Snapshot(st, cp, lc,
          Present([key \in TimingKeySet |->
                     IF key \in CriticKeys THEN c[key] ELSE Num(2)]),
          Absent(<<>>))

\* the composite keys of phases other than critic_review
CompositeKeys == {"evaluation_2"}

\* every JSON value under a composite key, beside each bare timing
CompositeSnapshot(r) ==
  \E st \in {"running", "completed"},
     cp \in {Undefined, Str("evaluation"), Str("feature_engineering")},
     lc \in {Num(0), Num(1)},
     bare \in PlainTimings,
     composite \in {Undefined, Null, Num(0), Num(4), Str("7")} :
    r = Snapshot(st, cp, lc,
          Present([key \in TimingKeySet |->
                     IF key = "evaluation" THEN bare
                     ELSE IF key \in CompositeKeys THEN composite
                     ELSE IF key \in NonCritic THEN Num(2) ELSE Undefined]),
          Absent(<<>>))

\* an error entry that is neither a string nor an object
ErrNull == [k |-> "null", s |-> "", phase |-> Undefined, error |-> Undefined]

\* entries with missing or mistyped members
MalformedEntries ==
  { ErrStr("boom"), ErrNull,
    ErrObj(Undefined, Undefined),
    ErrObj(Null, Null),
    ErrObj(Num(5), Num(7)),
    ErrObj(Str("evaluation"), Num(0)) }

\* every optional member missing, null or of another type than declared
MalformedSnapshot(r) ==
  \E st \in {"running", "completed"},
     cp \in {Undefined, Null, Num(5), Str("evaluation")},
     lc \in {Undefined, Null, Str("x"), Str("2"), Num(1)},
     pt \in { Absent(EmptyTimings), Mistyped(EmptyTimings), Present(EmptyTimings),
              Present([key \in TimingKeySet |->
                         IF key = "evaluation" THEN Str("5")
                         ELSE IF key = "visualization" THEN Null
                         ELSE IF key = "critic_review_1" THEN Num(2)
                         ELSE Undefined]) },
     er \in {Absent(<<>>), Mistyped(<<>>)}
             \cup {Present(q) : q \in SeqsUpTo(MalformedEntries, 1)} :
    r = Snapshot(st, cp, lc, pt, er)

ErrorTimings ==
  { Absent(EmptyTimings),
    Present(EmptyTimings),
    Present([key \in TimingKeySet |->
               IF key \in NonCritic \cup {"critic_review"} THEN Num(2)
               ELSE Undefined]),
    Present([key \in TimingKeySet |->
               IF key \in {"data_profiling", "evaluation", "critic_review_1",
                           "critic_review_2"} THEN Num(3)
               ELSE Undefined]) }

\* every sequence of up to MaxErrors error entries
ErrorSnapshot(r) ==
  \E st \in {"running", "failed"},
     cp \in {Undefined, Str("finalized"), Str("evaluation"),
             Str("feature_engineering")},
     lc \in {Num(0), Num(1)},
     pt \in ErrorTimings,
     er \in {Absent(<<>>)} \cup {Present(q) : q \in SeqsUpTo(ErrorEntries, MaxErrors)} :
    r = Snapshot(st, cp, lc, pt, er)

-----------------------------------------------------------------------------
(* lib/api.ts: startPipeline *)

DEFAULT_DATASET == "/tmp/ml-pipeline/uploads/sample_data.csv"

DEFAULT_OBJECTIVES ==
  "Predict the target variable using the best classification model. " \o
  "Focus on recall and generalization."

\* white space as String.prototype.trim sees it, as far as the inputs go
WhiteSpace == {" ", "\t", "\n"}

RECURSIVE trimStart(_)
trimStart(t) ==
  IF Len(t) > 0 /\ SubSeq(t, 1, 1) \in WhiteSpace
  THEN trimStart(SubSeq(t, 2, Len(t))) ELSE t

RECURSIVE trimEnd(_)
trimEnd(t) ==
  IF Len(t) > 0 /\ SubSeq(t, Len(t), Len(t)) \in WhiteSpace
  THEN trimEnd(SubSeq(t, 1, Len(t) - 1)) ELSE t

\* t.trim()
trim(t) == trimEnd(trimStart(t))

UpperCase == "ABCDEFGHIJKLMNOPQRSTUVWXYZ"

LowerCase == "abcdefghijklmnopqrstuvwxyz"

RECURSIVE toLowerCase(_)
toLowerCase(t) ==
  IF Len(t) = 0 THEN t
  ELSE LET c == SubSeq(t, 1, 1)
           low == IF \E i \in 1..26 : SubSeq(UpperCase, i, i) = c
                  THEN LET i == CHOOSE i \in 1..26 : SubSeq(UpperCase, i, i) = c
                       IN SubSeq(LowerCase, i, i)
                  ELSE c
       IN low \o toLowerCase(SubSeq(t, 2, Len(t)))

\* t.split(".").pop(): what follows the last dot, all of t when it has none
RECURSIVE lastSegment(_)
lastSegment(t) ==
  IF \E i \in 1..Len(t) : SubSeq(t, i, i) = "."
  THEN lastSegment(SubSeq(t, (CHOOSE i \in 1..Len(t) : SubSeq(t, i, i) = ".") + 1, Len(t)))
  ELSE t

\* (upload.filename || "").split(".").pop()?.toLowerCase()
ext(filename) ==
  toLowerCase(lastSegment(IF Truthy(filename) THEN filename.s ELSE ""))

\* the dataset_format sent for an uploaded file
formatOf(filename) ==
  IF ext(filename) = "parquet" THEN "parquet"
  ELSE IF ext(filename) = "json" THEN "json" ELSE "csv"

\* variant: blank objectives are sent as they are
objectivesSentUntrimmed(objectives) ==
  IF Truthy(objectives) THEN objectives.s ELSE DEFAULT_OBJECTIVES

\* objectives?.trim() || DEFAULT_OBJECTIVES
objectivesSent(objectives) ==
  IF NotNullish(objectives) /\ trim(objectives.s) # ""
  THEN trim(objectives.s) ELSE DEFAULT_OBJECTIVES

\* the POST that creates the run; body is the object JSON.stringify is given
createRequest(datasetPath, objectives, format) ==
  [url |-> "/api/v1/pipelines",
   body |-> [dataset_path |-> datasetPath,
             objectives |-> objectivesSent(objectives),
             dataset_format |-> format]]

\* the POST of uploadDataset
uploadRequest(file) ==
  [url |-> "/api/v1/datasets/upload",
   body |-> [file |-> file.s]]

\* no call of startPipeline under way
CallIdle ==
  [pc |-> "idle", file |-> Undefined, objectives |-> Undefined,
   upload |-> [path |-> "", filename |-> Undefined],
   sent |-> <<>>, settled |-> ""]

\* the names of the files a user picks
FileNames ==
  {"data.csv", "data.parquet", "DATA.PARQUET", "rows.json", "rows.v2.Json",
   "parquet", "notes.txt"}

\* what the objectives box can hold
ObjectivesTexts ==
  {"", "   ", "Predict churn", "  Predict churn \n", "a b"}

\* startPipeline(file, objectives) entered
CallEntered(c) ==
  \E file \in {Undefined} \cup {Str(f) : f \in FileNames},
     objectives \in {Undefined} \cup {Str(o) : o \in ObjectivesTexts} :
    c = [CallIdle EXCEPT !.pc = "called", !.file = file, !.objectives = objectives]

\* step 1 when a file is given, step 2 with the defaults otherwise
Begin ==
  /\ call.pc = "called"
  /\ call' = IF Truthy(call.file)
             THEN [call EXCEPT !.pc = "uploading",
                               !.sent = Append(@, uploadRequest(call.file))]
             ELSE [call EXCEPT !.pc = "creating",
                               !.sent = Append(@, createRequest(DEFAULT_DATASET,
                                                                call.objectives, "csv"))]
  /\ UNCHANGED <<raw, view, timeline, pc, hook, panel>>

\* uploadDataset resolved: the server stored the file and names it, or not
UploadOk ==
  /\ call.pc = "uploading"
  /\ \E filename \in {call.file, Undefined} :
       LET upload == [path |-> "/tmp/ml-pipeline/uploads/" \o call.file.s,
                      filename |-> filename]
       IN call' = [call EXCEPT
                     !.pc = "creating",
                     !.upload = upload,
                     !.sent = Append(@, createRequest(upload.path, call.objectives,
                                                      formatOf(upload.filename)))]
  /\ UNCHANGED <<raw, view, timeline, pc, hook, panel>>

\* variant: a failed upload falls back to the default dataset
UploadFailedFallsBack ==
  /\ call.pc = "uploading"
  /\ call' = [call EXCEPT !.pc = "creating",
                          !.sent = Append(@, createRequest(DEFAULT_DATASET,
                                                           call.objectives, "csv"))]
  /\ UNCHANGED <<raw, view, timeline, pc, hook, panel>>

\* uploadDataset threw: startPipeline rejects
UploadFailed ==
  /\ call.pc = "uploading"
  /\ call' = [call EXCEPT !.pc = "rejected", !.settled = "Upload failed (500): "]
  /\ UNCHANGED <<raw, view, timeline, pc, hook, panel>>

\* request resolved with the new run
CreateOk ==
  /\ call.pc = "creating"
  /\ call' = [call EXCEPT !.pc = "resolved", !.settled = "run-1"]
  /\ UNCHANGED <<raw, view, timeline, pc, hook, panel>>

\* request threw
CreateFailed ==
  /\ call.pc = "creating"
  /\ call' = [call EXCEPT !.pc = "rejected", !.settled = "API 500: "]
  /\ UNCHANGED <<raw, view, timeline, pc, hook, panel>>

-----------------------------------------------------------------------------
(* components/results: VisualizationPanel *)

MaxPipelines == 2

MaxPlots == 1

\* the k-th plot the backend lists for pipeline p
PlotInfo(p, k) ==
  [filename |-> "plot_" \o ToString(k) \o ".png",
   title |-> "Plot " \o ToString(k),
   url |-> "/api/v1/pipelines/run-" \o ToString(p) \o "/plots/plot_" \o ToString(k) \o ".png"]

\* what getPipelinePlots(p) can settle with: a rejection, or the plots
\* generated so far, none included
PlotAnswers(p) ==
  {[ok |-> FALSE, plots |-> <<>>]} \cup
  {[ok |-> TRUE, plots |-> [k \in 1..n |-> PlotInfo(p, k)]] : n \in 0..MaxPlots}

\* the panel as first rendered, before its effect runs
PanelIdle ==
  [ mounted |-> TRUE,
    pipelineId |-> 1,
    plots |-> <<>>,
    loading |-> TRUE,
    effect |-> 0,
    cancelled |-> {},
    timer |-> FALSE,
    fetched |-> 0,
    inflight |-> {},
    seen |-> <<"none", "none">> ]

\* fetchPlots(), up to the await: the nth call of the running effect
fetchPlots(p, nth, answer) ==
  [p EXCEPT !.fetched = nth,
            !.inflight = @ \cup {[effect |-> p.effect, nth |-> nth,
                                  ok |-> answer.ok, plots |-> answer.plots]}]

\* the effect body: a fresh cancelled flag, the first fetch, the retry timer
runEffect(p, answer) ==
  fetchPlots([p EXCEPT !.effect = @ + 1,
                       !.timer = TRUE,
                       !.seen = <<"none", "none">>], 1, answer)

\* the effect's cleanup
cleanup(p) == [p EXCEPT !.cancelled = @ \cup {p.effect}, !.timer = FALSE]

\* how a settled fetch reads: failed, empty or plots
outcome(f) ==
  IF ~ f.ok THEN "failed" ELSE IF Len(f.plots) = 0 THEN "empty" ELSE "plots"

\* what the panel renders below the insights
display ==
  IF panel.loading THEN "spinner"
  ELSE IF Len(panel.plots) > 0 THEN "grid" ELSE "placeholder"

\* variant: the timeout fires and fetches nothing
RetryTimerIdle ==
  /\ panel.timer
  /\ panel' = [panel EXCEPT !.timer = FALSE]
  /\ UNCHANGED <<raw, view, timeline, pc, hook, call>>

\* the setTimeout callback, 3 s after the effect ran
RetryTimer ==
  /\ panel.timer
  /\ \E answer \in PlotAnswers(panel.pipelineId) :
       panel' = IF panel.effect \in panel.cancelled
                THEN [panel EXCEPT !.timer = FALSE]
                ELSE fetchPlots([panel EXCEPT !.timer = FALSE], 2, answer)
  /\ UNCHANGED <<raw, view, timeline, pc, hook, call>>

\* variant: the settled fetch does not look at the cancelled flag
PlotsResponseUnchecked ==
  /\ \E f \in panel.inflight :
       LET gone == [panel EXCEPT !.inflight = @ \ {f}]
           set == IF f.ok THEN [gone EXCEPT !.plots = f.plots] ELSE gone
       IN panel' = [set EXCEPT !.loading = FALSE, !.seen[f.nth] = outcome(f)]
  /\ UNCHANGED <<raw, view, timeline, pc, hook, call>>

\* fetchPlots() after the await settled: try, catch, finally
PlotsResponse ==
  /\ \E f \in panel.inflight :
       LET live == f.effect \notin panel.cancelled
           gone == [panel EXCEPT !.inflight = @ \ {f}]
           set == IF f.ok /\ live THEN [gone EXCEPT !.plots = f.plots] ELSE gone
       IN panel' = IF live
                   THEN [set EXCEPT !.loading = FALSE, !.seen[f.nth] = outcome(f)]
                   ELSE set
  /\ UNCHANGED <<raw, view, timeline, pc, hook, call>>

\* the parent renders the panel for another run: cleanup, then the effect
ChangePipeline ==
  /\ panel.mounted
  /\ panel.pipelineId < MaxPipelines
  /\ \E answer \in PlotAnswers(panel.pipelineId + 1) :
       panel' = runEffect([cleanup(panel) EXCEPT !.pipelineId = @ + 1], answer)
  /\ UNCHANGED <<raw, view, timeline, pc, hook, call>>

PanelUnmount ==
  /\ panel.mounted
  /\ panel' = [cleanup(panel) EXCEPT !.mounted = FALSE]
  /\ UNCHANGED <<raw, view, timeline, pc, hook, call>>

-----------------------------------------------------------------------------
(* hooks/usePipeline.ts *)

MaxLaunches == 3

MaxInflight == 2

MaxClock == 1

TERMINAL == {"completed", "completed_with_errors", "failed"}

\* the pipeline_id the backend gives to its n-th run
RunId(n) == "run-" \o ToString(n)

\* what the backend answers to a status request for run n
StatusResponse(n, st) ==
  [pipeline_id |-> RunId(n), status |-> st, current_phase |-> Undefined,
   loop_count |-> Undefined, phase_timings |-> Absent(EmptyTimings),
   errors |-> Absent(<<>>)]

\* setRun({ pipeline_id, status: "pending", phases: [], errors: [] })
FirstRun(n) ==
  [pipeline_id |-> RunId(n), status |-> "pending", current_phase |-> Undefined,
   phases |-> <<>>, loop_count |-> Undefined, errors |-> Present(<<>>)]

\* the hook after mount. sinceStart is Date.now() - startTimeRef.current in
\* seconds, the only way the code reads the two; the members from intervals
\* on are the environment (interval table, backend, network) and the record
\* of what happened
HookMounted ==
  [ mounted |-> TRUE,
    run |-> Absent(FirstRun(0)),
    loading |-> FALSE,
    error |-> Null,
    elapsed |-> 0,
    timerRef |-> 0,
    pollRef |-> 0,
    sinceStart |-> 0,
    intervals |-> {},
    nextTimer |-> 1,
    launched |-> 0,
    creating |-> 0,
    backend |-> <<>>,
    inflight |-> EmptyBag,
    cancel |-> "none",
    done |-> {},
    quiet |-> FALSE ]

\* the messages startPipeline rejects with: request threw, uploadDataset threw
FailureMessages == {"API 500: ", "Upload failed (500): "}

\* clearInterval(id) for the ids in ids; 0 stands for a null ref
clearIntervals(intervals, ids) == {t \in intervals : t.id \notin ids}

\* page: hasRun={!!run && !loading}, the prop of PipelineControls
hasRunProp == hook.run.present /\ ~ hook.loading

\* PipelineControls: the launch button is rendered when !hasRun || loading
\* and is disabled while loading
canLaunch == (~ hasRunProp \/ hook.loading) /\ ~ hook.loading

\* PipelineControls: the "New Run" button is rendered otherwise
canReset == ~ (~ hasRunProp \/ hook.loading)

\* useState: a setter called after the component unmounted changes nothing
\* that is rendered; refs and timers are changed all the same
setState(next) ==
  IF hook.mounted THEN next
  ELSE [next EXCEPT !.run = hook.run, !.loading = hook.loading,
                    !.error = hook.error, !.elapsed = hook.elapsed]

\* launch, up to the await of startPipeline
LaunchCall ==
  /\ hook.mounted
  /\ canLaunch
  /\ hook.launched < MaxLaunches
  /\ hook' = [hook EXCEPT !.error = Null,
                          !.loading = TRUE,
                          !.elapsed = 0,
                          !.sinceStart = 0,
                          !.launched = @ + 1,
                          !.creating = @ + 1,
                          !.cancel = "none",
                          !.quiet = FALSE]
  /\ UNCHANGED <<raw, view, timeline, pc, panel, call>>

\* launch, after startPipeline resolved with the id of a new run
LaunchCreated ==
  /\ hook.creating > 0
  /\ LET n == Len(hook.backend) + 1
         t == hook.nextTimer
     IN hook' = setState([hook EXCEPT
                   !.creating = @ - 1,
                   !.backend = Append(@, "pending"),
                   !.run = Present(FirstRun(n)),
                   !.timerRef = t,
                   !.pollRef = t + 1,
                   !.intervals = @ \cup {[id |-> t, kind |-> "elapsed", run |-> n],
                                         [id |-> t + 1, kind |-> "poll", run |-> n]},
                   !.nextTimer = t + 2])
  /\ UNCHANGED <<raw, view, timeline, pc, panel, call>>

\* launch, after startPipeline rejected
\* variant: the catch block leaves loading as it is
LaunchFailedStillLoading ==
  /\ hook.creating > 0
  /\ \E message \in FailureMessages :
       hook' = setState([hook EXCEPT !.creating = @ - 1,
                                     !.error = Str(message)])
  /\ UNCHANGED <<raw, view, timeline, pc, panel, call>>

LaunchFailed ==
  /\ hook.creating > 0
  /\ \E message \in FailureMessages :
       hook' = setState([hook EXCEPT !.creating = @ - 1,
                                     !.error = Str(message),
                                     !.loading = FALSE])
  /\ UNCHANGED <<raw, view, timeline, pc, panel, call>>

\* the callback of the elapsed interval
ElapsedTick ==
  /\ \E t \in hook.intervals :
       /\ t.kind = "elapsed"
       /\ hook' = setState([hook EXCEPT !.elapsed = hook.sinceStart])
  /\ UNCHANGED <<raw, view, timeline, pc, panel, call>>

\* the callback of the poll interval, up to the await: the request goes
\* out; the backend answers with the status it holds or the request fails.
PollTick ==
  /\ BagCardinality(hook.inflight) < MaxInflight
  /\ \E t \in hook.intervals :
       /\ t.kind = "poll"
       /\ \E st \in {hook.backend[t.run], "error"} :
            hook' = [hook EXCEPT
                       !.inflight = @ (+) SetToBag({[run |-> t.run, status |-> st]})]
  /\ UNCHANGED <<raw, view, timeline, pc, panel, call>>

\* the poll callback after the await of getPipelineStatus resolved
PollResponse ==
  /\ \E resp \in BagToSet(hook.inflight) :
       /\ resp.status # "error"
       /\ LET data == transformRun(StatusResponse(resp.run, resp.status))
              shown == [hook EXCEPT !.inflight = @ (-) SetToBag({resp}),
                                    !.run = Present(data)]
          IN hook' = setState(IF data.status \in TERMINAL
                              THEN [shown EXCEPT
                                      !.intervals = clearIntervals(@, {hook.pollRef, hook.timerRef}),
                                      !.loading = FALSE,
                                      !.done = @ \cup {resp.run},
                                      !.quiet = TRUE]
                              ELSE shown)
  /\ UNCHANGED <<raw, view, timeline, pc, panel, call>>

\* variant: a failed poll ends the polling
PollFailureStopsPolling ==
  /\ \E resp \in BagToSet(hook.inflight) :
       /\ resp.status = "error"
       /\ hook' = [hook EXCEPT !.inflight = @ (-) SetToBag({resp}),
                               !.intervals = clearIntervals(@, {hook.pollRef})]
  /\ UNCHANGED <<raw, view, timeline, pc, panel, call>>

\* the poll callback after getPipelineStatus rejected: console.error
PollFailure ==
  /\ \E resp \in BagToSet(hook.inflight) :
       /\ resp.status = "error"
       /\ hook' = [hook EXCEPT !.inflight = @ (-) SetToBag({resp})]
  /\ UNCHANGED <<raw, view, timeline, pc, panel, call>>

reset ==
  /\ hook.mounted
  /\ canReset
  /\ hook' = [hook EXCEPT
                !.intervals = clearIntervals(@, {hook.timerRef, hook.pollRef}),
                !.run = Absent(FirstRun(0)),
                !.error = Null,
                !.loading = FALSE,
                !.elapsed = 0,
                !.cancel = "reset"]
  /\ UNCHANGED <<raw, view, timeline, pc, panel, call>>

\* the cleanup of the mount effect
Unmount ==
  /\ hook.mounted
  /\ hook' = [hook EXCEPT
                !.mounted = FALSE,
                !.intervals = clearIntervals(@, {hook.timerRef, hook.pollRef}),
                !.cancel = "unmount"]
  /\ UNCHANGED <<raw, view, timeline, pc, panel, call>>

\* the orchestrator moves a run on: pending, running, then a terminal status
BackendAdvance ==
  /\ \E n \in 1..Len(hook.backend) :
       \E st \in PipelineStatus :
         /\ \/ hook.backend[n] = "pending" /\ st = "running"
            \/ hook.backend[n] = "running" /\ st \in TERMINAL
         /\ hook' = [hook EXCEPT !.backend[n] = st]
  /\ UNCHANGED <<raw, view, timeline, pc, panel, call>>

\* a second passes
ClockTick ==
  /\ hook.sinceStart < MaxClock
  /\ hook' = [hook EXCEPT !.sinceStart = @ + 1]
  /\ UNCHANGED <<raw, view, timeline, pc, panel, call>>

-----------------------------------------------------------------------------
(* The state machine: fetch, project, render *)

\* the run usePipeline.launch sets before the first poll
InitialRun ==
  [pipeline_id |-> "run-1", status |-> "pending", current_phase |-> Undefined,
   phases |-> <<>>, loop_count |-> Undefined, errors |-> Present(<<>>)]

Init ==
  /\ \/ ClassifySnapshot(raw)
     \/ CriticSnapshot(raw)
     \/ ErrorSnapshot(raw)
     \/ CompositeSnapshot(raw)
  /\ view = InitialRun
  /\ timeline = PhaseTimeline(InitialRun.phases)
  /\ pc = "fetched"
  /\ hook = HookMounted
  /\ panel = PanelIdle
  /\ call = CallIdle

\* variant: the error loop consumes the entries of raw.errors
ProjectDrainingErrors ==
  /\ pc = "fetched"
  /\ view' = transformRun(raw)
  /\ pc' = "projected"
  /\ raw' = [raw EXCEPT !.errors.value = <<>>]
  /\ UNCHANGED <<timeline, hook, panel, call>>

\* getPipelineStatus: return transformRun(raw); a TypeError raised by
\* transformRun rejects the call and leaves the displayed run as it was
Project ==
  /\ pc = "fetched"
  /\ IF throws(raw)
     THEN pc' = "threw" /\ UNCHANGED view
     ELSE view' = transformRun(raw) /\ pc' = "projected"
  /\ UNCHANGED <<raw, timeline, hook, panel, call>>

\* PhaseTimeline rendered with phases = run.phases
Render ==
  /\ pc = "projected"
  /\ timeline' = PhaseTimeline(view.phases)
  /\ pc' = "rendered"
  /\ UNCHANGED <<raw, view, hook, panel, call>>

Next == Project \/ Render

Spec == Init /\ [][Next]_vars

\* the same machine over responses with missing or mistyped members
InitMalformed ==
  /\ MalformedSnapshot(raw)
  /\ view = InitialRun
  /\ timeline = PhaseTimeline(InitialRun.phases)
  /\ pc = "fetched"
  /\ hook = HookMounted
  /\ panel = PanelIdle
  /\ call = CallIdle

SpecMalformed == InitMalformed /\ [][Next]_vars

\* usePipeline under the buttons of PipelineControls
InitPoll ==
  /\ raw = StatusResponse(1, "pending")
  /\ view = FirstRun(1)
  /\ timeline = PhaseTimeline(FirstRun(1).phases)
  /\ pc = "fetched"
  /\ hook = HookMounted
  /\ panel = PanelIdle
  /\ call = CallIdle

NextPoll ==
  \/ LaunchCall \/ LaunchCreated \/ LaunchFailed
  \/ ElapsedTick \/ PollTick \/ PollResponse \/ PollFailure
  \/ reset \/ Unmount \/ BackendAdvance \/ ClockTick

SpecPoll == InitPoll /\ [][NextPoll]_vars

\* VisualizationPanel, mounted and its effect run
InitPanel ==
  /\ raw = StatusResponse(1, "pending")
  /\ view = FirstRun(1)
  /\ timeline = PhaseTimeline(FirstRun(1).phases)
  /\ pc = "fetched"
  /\ hook = HookMounted
  /\ \E answer \in PlotAnswers(1) : panel = runEffect(PanelIdle, answer)
  /\ call = CallIdle

NextPanel == RetryTimer \/ PlotsResponse \/ ChangePipeline \/ PanelUnmount

\* the event loop runs a timeout that is due
SpecPanel == InitPanel /\ [][NextPanel]_vars /\ WF_vars(RetryTimer)

\* one call of startPipeline
InitCall ==
  /\ raw = StatusResponse(1, "pending")
  /\ view = FirstRun(1)
  /\ timeline = PhaseTimeline(FirstRun(1).phases)
  /\ pc = "fetched"
  /\ hook = HookMounted
  /\ panel = PanelIdle
  /\ CallEntered(call)

NextCall == Begin \/ UploadOk \/ UploadFailed \/ CreateOk \/ CreateFailed

SpecCall == InitCall /\ [][NextCall]_vars

TypeOK ==
  /\ pc \in {"fetched", "projected", "rendered", "threw"}
  /\ raw.status \in PipelineStatus
  /\ Len(timeline) = Len(PHASE_ORDER)

-----------------------------------------------------------------------------
(* Vocabulary of the properties, read off the raw response *)

Projected == pc \in {"projected", "rendered"}

Canonical ==
  << "data_profiling", "feature_engineering", "visualization",
     "model_training", "evaluation", "critic_review" >>

RawErrors == IF raw.errors.present THEN raw.errors.value ELSE <<>>

FlatErrors == IF view.errors.present THEN view.errors.value ELSE <<>>

RawTiming(key) ==
  IF raw.phase_timings.present THEN raw.phase_timings.value[key] ELSE Undefined

\* some structured error entry carries the phase tag name
Named(name) ==
  \E i \in 1..Len(RawErrors) :
    RawErrors[i].k = "obj" /\ RawErrors[i].phase = Str(name)

StatusOf(i) == view.phases[i].status

\* the canonical index of current_phase, 0 when it is no canonical phase
RawCurrentIdx ==
  IF \E i \in 1..6 : raw.current_phase = Str(Canonical[i])
  THEN CHOOSE i \in 1..6 : raw.current_phase = Str(Canonical[i])
  ELSE 0

\* the seconds a timing contributes when it is a number, else zero
Seconds(v) == IF v.k = "num" THEN v.n ELSE 0

NumericCriticTotal ==
  Seconds(RawTiming("critic_review")) + Seconds(RawTiming("critic_review_1"))
    + Seconds(RawTiming("critic_review_2"))

\* the reported duration of phase i is a positive number
PositiveDuration(i) ==
  view.phases[i].duration_seconds.k = "num" /\ view.phases[i].duration_seconds.n > 0

-----------------------------------------------------------------------------
(* Properties *)

\* C1: every projection has exactly six phase entries and the i-th entry
\* names the i-th canonical phase, whatever the raw response holds.
C1_SixPhasesInOrder ==
  Projected =>
    /\ Len(view.phases) = 6
    /\ \A i \in 1..6 : view.phases[i].phase = Canonical[i]

\* C1 witness: a projection of a response without phase_timings whose two
\* error entries both name the same phase.
C1_Witness ==
  /\ pc = "projected"
  /\ ~ raw.phase_timings.present
  /\ Len(RawErrors) = 2
  /\ Named("evaluation")
  /\ Len(view.phases) = 6

\* C3: a structured error entry whose phase tag names a canonical phase
\* leaves that phase with status error, whatever the classification gave.
C3_ErrorTagWins ==
  Projected =>
    \A i \in 1..6 : Named(Canonical[i]) => StatusOf(i) = "error"

\* C3 witness: evaluation has a positive duration, is the current phase of
\* a running run, carries an error entry, and is shown as error.
C3_Witness ==
  /\ pc = "projected"
  /\ raw.status = "running"
  /\ raw.current_phase = Str("evaluation")
  /\ RawTiming("evaluation") = Num(2)
  /\ Named("evaluation")
  /\ StatusOf(5) = "error"

\* C4: the flattened error list has one string per error entry, in the
\* original order: a bare string verbatim, an object as its rendered message.
C4_ErrorsFlattened ==
  Projected =>
    /\ Len(FlatErrors) = Len(RawErrors)
    /\ \A i \in 1..Len(RawErrors) :
         /\ i <= Len(FlatErrors)
         /\ RawErrors[i].k = "str" => FlatErrors[i] = RawErrors[i].s
         /\ RawErrors[i].k = "obj" => FlatErrors[i] = renderError(RawErrors[i])

\* C4 witness: an untagged object entry followed by a bare string, both
\* flattened in that order.
C4_Witness ==
  /\ pc = "projected"
  /\ Len(RawErrors) = 2
  /\ RawErrors[1] = ErrObj(Undefined, Str("lost connection"))
  /\ RawErrors[2] = ErrStr("boom")
  /\ FlatErrors = <<"lost connection", "boom">>

\* the critic timings are numbers where they are present
CriticTimingsNumeric ==
  \A key \in CriticKeys : RawTiming(key).k \in {"undefined", "num"}

\* C5: with numeric critic timings, the duration reported for critic_review
\* is the bare timing plus every composite timing; no duration is reported
\* when that sum is not positive.
C5_CriticDurationIsSum ==
  (Projected /\ CriticTimingsNumeric) =>
    view.phases[6].duration_seconds =
      IF NumericCriticTotal > 0 THEN Num(NumericCriticTotal) ELSE Undefined

\* C5 witness: composite timings of 2 and 3 seconds and no bare key give
\* a duration of 5 seconds.
C5_Witness ==
  /\ pc = "projected"
  /\ RawTiming("critic_review") = Undefined
  /\ RawTiming("critic_review_1") = Num(2)
  /\ RawTiming("critic_review_2") = Num(3)
  /\ view.phases[6].duration_seconds = Num(5)

\* the critic_review occurrences phase_timings records: one per composite
\* key that holds a duration, or the bare key alone
CriticOccurrences ==
  LET composite == Cardinality({key \in {"critic_review_1", "critic_review_2"} :
                                  RawTiming(key).k = "num"})
  IN IF composite > 0 THEN composite
     ELSE IF RawTiming("critic_review").k = "num" THEN 1 ELSE 0

\* C6: once phase_timings records a critic_review occurrence, the count the
\* timeline attaches to critic_review is the number of recorded occurrences
\* (two composite keys give 2).
C6_CountIsOccurrences ==
  (pc = "rendered" /\ CriticOccurrences >= 1) =>
    timeline[6].count = CriticOccurrences

\* C7: a critic timing that is not a number contributes zero, under the
\* bare key as under a composite key: the reported duration is the sum of
\* the numeric critic timings alone.
C7_NonNumericIsZero ==
  Projected =>
    view.phases[6].duration_seconds =
      IF NumericCriticTotal > 0 THEN Num(NumericCriticTotal) ELSE Undefined

\* the loop-back condition of claim C8 for phase i, current phase at c
WillRerunCase(i, c) ==
  /\ raw.status = "running"
  /\ raw.loop_count.k = "num" /\ raw.loop_count.n > 0
  /\ PositiveDuration(i)
  /\ i > c
  /\ i # 6

\* C8: with a canonical current phase and no error entry naming phase i,
\* i is will_rerun exactly in the loop-back case; any other phase that has
\* run and is not the running current phase is completed; critic_review is
\* never will_rerun.
C8_WillRerunExactly ==
  (Projected /\ RawCurrentIdx > 0) =>
    /\ \A i \in 1..6 :
         ~ Named(Canonical[i]) =>
           /\ StatusOf(i) = "will_rerun" <=> WillRerunCase(i, RawCurrentIdx)
           /\ ( /\ PositiveDuration(i)
                /\ ~ (i = RawCurrentIdx /\ raw.status = "running")
                /\ ~ WillRerunCase(i, RawCurrentIdx) )
              => StatusOf(i) = "completed"
    /\ StatusOf(6) # "will_rerun"

\* C8 witness: a loop back to feature_engineering with model_training and
\* critic_review already run, and an error entry naming another phase.
C8_Witness ==
  /\ pc = "projected"
  /\ raw.status = "running"
  /\ raw.loop_count = Num(1)
  /\ raw.current_phase = Str("feature_engineering")
  /\ Named("visualization") /\ ~ Named("model_training")
  /\ StatusOf(4) = "will_rerun"
  /\ PositiveDuration(6) /\ StatusOf(6) = "completed"

\* the scenario of claim C9
LoopBackScenario ==
  /\ raw.status = "running"
  /\ raw.loop_count = Num(1)
  /\ raw.current_phase = Str("feature_engineering")
  /\ \A key \in {"feature_engineering", "visualization", "model_training"} :
       RawTiming(key).k = "num" /\ RawTiming(key).n > 0

LoopBackOutcome ==
  /\ StatusOf(3) = "will_rerun"
  /\ StatusOf(4) = "will_rerun"
  /\ StatusOf(2) = "running"
  /\ StatusOf(1) = "completed"

\* C9 as stated: in the loop-back scenario visualization and model_training
\* are will_rerun, feature_engineering is running and data_profiling, the
\* phase before it, is completed.
C9_AsStated == (Projected /\ LoopBackScenario) => LoopBackOutcome

\* C9 amended: the same outcome when, in addition, data_profiling has a
\* positive timing and no error entry names one of the four phases.
C9_LoopBackScenario ==
  ( /\ Projected
    /\ LoopBackScenario
    /\ RawTiming("data_profiling").k = "num"
    /\ RawTiming("data_profiling").n > 0
    /\ \A i \in 1..4 : ~ Named(Canonical[i]) )
  => LoopBackOutcome

\* C9 witness: the amended scenario, projected, with an error entry that
\* names none of the four phases.
C9_Witness ==
  /\ pc = "projected"
  /\ LoopBackScenario
  /\ RawTiming("data_profiling") = Num(2)
  /\ Len(RawErrors) > 0
  /\ \A i \in 1..4 : ~ Named(Canonical[i])
  /\ LoopBackOutcome

\* the timing of phase i is zero or absent (for critic_review: every
\* critic timing is)
ZeroOrNoTiming(i) ==
  IF i = 6
  THEN \A key \in CriticKeys : RawTiming(key) \in {Undefined, Null, Num(0)}
  ELSE RawTiming(Canonical[i]) \in {Undefined, Null, Num(0)}

\* C10: a phase whose timing is zero or absent is pending, unless it is the
\* current phase of a running run, an error entry names it, or it is
\* critic_review under current_phase = finalized.
C10_ZeroIsPending ==
  Projected =>
    \A i \in 1..6 :
      ( /\ ZeroOrNoTiming(i)
        /\ ~ (raw.status = "running" /\ raw.current_phase = Str(Canonical[i]))
        /\ ~ Named(Canonical[i])
        /\ ~ (i = 6 /\ raw.current_phase = Str("finalized")) )
      => StatusOf(i) = "pending"

\* C10 witness: a timing entry of 0 for data_profiling in a looping run
\* whose later phases have run; data_profiling is pending.
C10_Witness ==
  /\ pc = "projected"
  /\ RawTiming("data_profiling") = Num(0)
  /\ raw.status = "running"
  /\ raw.loop_count = Num(1)
  /\ raw.current_phase = Str("feature_engineering")
  /\ StatusOf(1) = "pending"
  /\ StatusOf(3) = "will_rerun"

\* C11: when current_phase is absent or outside the canonical order, no
\* phase is will_rerun and none is running, whatever status and loop_count.
C11_NoCurrentNoLoop ==
  (Projected /\ RawCurrentIdx = 0) =>
    \A i \in 1..6 : StatusOf(i) \notin {"will_rerun", "running"}

\* C11 witness: a running run with loop_count 1 whose current_phase is an
\* unknown name, all five single-run phases timed, projected as completed.
C11_Witness ==
  /\ pc = "projected"
  /\ raw.status = "running"
  /\ raw.loop_count = Num(1)
  /\ raw.current_phase = Str("unknown_phase")
  /\ \A i \in 1..5 : RawTiming(Canonical[i]) = Num(2) /\ StatusOf(i) = "completed"

\* C12: under current_phase = finalized, critic_review is completed even
\* without a critic timing (unless an error entry names it) and no phase is
\* will_rerun, whatever status and loop_count.
C12_FinalizedCritic ==
  (Projected /\ raw.current_phase = Str("finalized")) =>
    /\ ~ Named("critic_review") => StatusOf(6) = "completed"
    /\ \A i \in 1..6 : StatusOf(i) # "will_rerun"

\* C12 witness: finalized while still running with loop_count 1, no critic
\* timing at all, an earlier phase timed; critic_review is completed.
C12_Witness ==
  /\ pc = "projected"
  /\ raw.current_phase = Str("finalized")
  /\ raw.status = "running"
  /\ raw.loop_count = Num(1)
  /\ \A key \in CriticKeys : RawTiming(key) = Undefined
  /\ RawTiming("evaluation") = Num(2)
  /\ StatusOf(6) = "completed"
  /\ StatusOf(5) = "completed"

\* the error entry carries no phase attribution: a bare string, an object
\* without a phase tag, or a tag that is no canonical phase
Unattributed(e) ==
  \/ e.k = "str"
  \/ e.k = "obj" /\ \A i \in 1..6 : e.phase # Str(Canonical[i])

\* the sequence q without its i-th entry
Without(q, i) == SubSeq(q, 1, i - 1) \o SubSeq(q, i + 1, Len(q))

\* C15: an error entry without phase attribution changes no phase status:
\* the phase views equal those projected from the response without it.
C15_UnattributedErrorsKeepPhases ==
  Projected =>
    \A i \in 1..Len(RawErrors) :
      Unattributed(RawErrors[i]) =>
        view.phases =
          transformRun([raw EXCEPT !.errors = Present(Without(RawErrors, i))]).phases

\* C15 witness: an entry tagged with an unknown phase next to one naming
\* evaluation; only evaluation is shown as error.
C15_Witness ==
  /\ pc = "projected"
  /\ RawErrors = << ErrObj(Str("unknown_phase"), Str("skipped")),
                    ErrObj(Str("evaluation"), Str("divide by zero")) >>
  /\ FlatErrors = << "[unknown_phase] skipped", "[evaluation] divide by zero" >>
  /\ \A i \in 1..6 : StatusOf(i) = "error" <=> i = 5

\* C13: transformRun is total: whatever optional member is missing or
\* mistyped, the call returns a run and never ends in an error.
C13_NeverThrows == pc # "threw"

-----------------------------------------------------------------------------
(* Properties of usePipeline, checked under SpecPoll *)

\* the intervals that belong to run n
TimersOf(n) == {t \in hook.intervals : t.run = n}

\* C16: once a poll response with a terminal status has been processed for
\* a run, neither the poll timer nor the elapsed timer of that run is active
\* (so no further status fetch starts for it), and loading is false until
\* the next launch.
C16_TerminalStopsPolling ==
  /\ \A n \in hook.done : TimersOf(n) = {}
  /\ hook.mounted /\ hook.quiet => ~ hook.loading


\* C17: after reset() or unmount, and until launch is called again, no poll
\* timer and no elapsed timer is active (so no status fetch can start),
\* whatever step of launch the reset or unmount fell into.
C17_CancelledMeansNoTimers ==
  hook.cancel # "none" => hook.intervals = {}

\* C18: after reset(), and until launch is called again, the displayed run
\* is null, whatever responses arrive.
C18_ResetKeepsRunNull ==
  hook.cancel = "reset" => ~ hook.run.present


-----------------------------------------------------------------------------
(* Properties of VisualizationPanel, checked under SpecPanel *)

\* the running effect has not been cleaned up
Live == panel.mounted /\ panel.effect \notin panel.cancelled

\* the first fetch of the running effect came back failed or with no plot
FirstFell == panel.seen[1] \in {"failed", "empty"}

\* C19: when the first fetch of a pipeline failed or returned nothing and
\* the panel stays mounted on that pipeline, the retry is pending or made,
\* and it is eventually made; a second fetch that succeeds sets the plot
\* list to what it returned; a fetch that fails leaves the plots as they
\* were and ends the spinner, the panel showing the grid or the placeholder.
C19_RetriesOnce ==
  /\ [](Live /\ FirstFell => panel.timer \/ panel.fetched = 2)
  /\ \A e \in 1..MaxPipelines :
       (panel.effect = e /\ Live /\ FirstFell)
         ~> ((panel.effect = e /\ panel.fetched = 2) \/ e \in panel.cancelled)
  /\ [][\A f \in panel.inflight :
          f \notin panel'.inflight /\ f.effect \notin panel.cancelled =>
            IF f.ok
            THEN f.nth = 2 => panel'.plots = f.plots
            ELSE /\ panel'.plots = panel.plots
                 /\ ~ panel'.loading
                 /\ display' \in {"grid", "placeholder"}]_vars

\* the first fetch fell, the retry came back with plots, and they are shown
C19_Witness ==
  /\ Live /\ FirstFell
  /\ panel.seen[2] = "plots"
  /\ Len(panel.plots) > 0
  /\ display = "grid"

-----------------------------------------------------------------------------
(* Properties of startPipeline, checked under SpecCall *)

\* the last request sent is the one that creates the run
CreateSent ==
  Len(call.sent) > 0 /\ call.sent[Len(call.sent)].url = "/api/v1/pipelines"

CreateBody == call.sent[Len(call.sent)].body

Blank(t) == \A i \in 1..Len(t) : SubSeq(t, i, i) \in WhiteSpace

\* objectives omitted, or blank
Omitted(objectives) == objectives = Undefined \/ Blank(objectives.s)

\* inner is given without the white space around it
TrimmedOf(inner, given) ==
  \E i, j \in 1..Len(given) :
    /\ i <= j
    /\ inner = SubSeq(given, i, j)
    /\ Blank(SubSeq(given, 1, i - 1)) /\ Blank(SubSeq(given, j + 1, Len(given)))
    /\ SubSeq(given, i, i) \notin WhiteSpace /\ SubSeq(given, j, j) \notin WhiteSpace

DefaultsWhenOmitted ==
  /\ call.file = Undefined =>
       /\ CreateBody.dataset_path = DEFAULT_DATASET
       /\ CreateBody.dataset_format = "csv"
  /\ Omitted(call.objectives) => CreateBody.objectives = DEFAULT_OBJECTIVES

\* C20 as the claim words it: with a file and objectives supplied, the
\* uploaded path and the objectives as given are sent.
C20_AsStated ==
  CreateSent =>
    /\ DefaultsWhenOmitted
    /\ call.file # Undefined /\ ~ Omitted(call.objectives) =>
         /\ CreateBody.dataset_path = call.upload.path
         /\ CreateBody.objectives = call.objectives.s

\* C20, amended: with no file the default dataset path and format csv are
\* sent; with objectives omitted or blank the default objectives are sent;
\* with both supplied the path the upload returned is sent, and the
\* objectives are sent without the white space around them.
C20_DefaultsApplied ==
  CreateSent =>
    /\ DefaultsWhenOmitted
    /\ call.file # Undefined /\ ~ Omitted(call.objectives) =>
         /\ CreateBody.dataset_path = call.upload.path
         /\ TrimmedOf(CreateBody.objectives, call.objectives.s)

\* a file and padded objectives were given and the run creation was sent
C20_Witness ==
  /\ CreateSent
  /\ call.file = Str("rows.json")
  /\ call.objectives = Str("  Predict churn \n")
  /\ CreateBody.objectives = "Predict churn"
  /\ CreateBody.dataset_format = "json"


-----------------------------------------------------------------------------
(* Further properties of transformRun, checked under Spec *)

\* C21: a phase that no error entry names has status running exactly when
\* it is the current_phase and the overall status is running, whatever its
\* recorded duration, the loop count and whether it ran before.
C21_RunningIffCurrent ==
  Projected =>
    \A i \in 1..6 :
      ~ Named(Canonical[i]) =>
        (StatusOf(i) = "running"
           <=> raw.current_phase = Str(Canonical[i]) /\ raw.status = "running")

\* a looping run whose current phase ran before, with a recorded duration
C21_Witness ==
  /\ Projected
  /\ raw.status = "running"
  /\ raw.current_phase = Str("visualization")
  /\ raw.loop_count = Num(1)
  /\ RawTiming("visualization") = Num(2)
  /\ StatusOf(3) = "running"

\* the raw response with the composite keys of the single-run phases removed
WithoutComposites ==
  IF raw.phase_timings.present
  THEN [raw EXCEPT !.phase_timings.value =
          [key \in TimingKeySet |-> IF key \in CompositeKeys THEN Undefined ELSE @[key]]]
  ELSE raw

\* C22: for every canonical phase other than critic_review the reported
\* duration is the timing under the bare key of the phase, absent when the
\* key is absent, and the status is the one the response without the
\* composite keys would give.
C22_BareKeyOnly ==
  Projected =>
    LET plain == transformRun(WithoutComposites).phases
    IN \A i \in 1..5 :
         /\ view.phases[i].duration_seconds = RawTiming(Canonical[i])
         /\ Named(Canonical[i]) \/ StatusOf(i) = plain[i].status

\* evaluation has a timing under evaluation_2 only and shows as not run
C22_Witness ==
  /\ Projected
  /\ RawTiming("evaluation") = Undefined
  /\ RawTiming("evaluation_2") = Num(4)
  /\ view.phases[5].duration_seconds = Undefined
  /\ StatusOf(5) = "pending"

\* the phases shown with status s
WithStatus(s) == {i \in 1..Len(view.phases) : StatusOf(i) = s}

\* C28: at most one phase of a projection is running, and when the overall
\* status is not running no phase is running or will_rerun.
C28_OneRunning ==
  Projected =>
    /\ Cardinality(WithStatus("running")) <= 1
    /\ view.status # "running" =>
         WithStatus("running") = {} /\ WithStatus("will_rerun") = {}

\* a finished run that looped and stopped on an earlier phase than it ran
C28_Witness ==
  /\ Projected
  /\ view.status = "completed"
  /\ raw.loop_count = Num(1)
  /\ raw.current_phase = Str("feature_engineering")
  /\ PositiveDuration(4)
  /\ StatusOf(4) = "completed"
  /\ WithStatus("running") = {}


-----------------------------------------------------------------------------
(* Further properties of usePipeline, checked under SpecPoll *)

\* the displayed run, once it shows a terminal status
ShowsTerminal(h) == h.run.present /\ h.run.value.status \in TERMINAL

\* C24: once a terminal status is displayed for a run, a step that leaves
\* that run on display leaves its status terminal; only reset() and a new
\* launch take the run off display.
C24_TerminalViewStays ==
  [][ShowsTerminal(hook) /\ hook'.run.present
        /\ hook'.run.value.pipeline_id = hook.run.value.pipeline_id
      => ShowsTerminal(hook')]_vars

\* this step is the catch of a status fetch that failed
FailureDelivered ==
  \E resp \in BagToSet(hook.inflight) :
    resp.status = "error" /\ hook'.inflight = hook.inflight (-) SetToBag({resp})

\* C25: the step that handles a failed status fetch changes neither run,
\* loading, error nor elapsed, and leaves every interval and both refs as
\* they were, so the poll timer that was running ticks again.
C25_PollFailureChangesNothing ==
  [][FailureDelivered =>
       /\ hook'.run = hook.run /\ hook'.loading = hook.loading
       /\ hook'.error = hook.error /\ hook'.elapsed = hook.elapsed
       /\ hook'.intervals = hook.intervals
       /\ hook'.pollRef = hook.pollRef /\ hook'.timerRef = hook.timerRef]_vars

\* a run is being monitored, its poll timer is the one pollRef holds, and
\* a failed fetch of it is about to be handled
C25_Witness ==
  /\ hook.mounted /\ hook.loading /\ hook.run.present
  /\ \E t \in hook.intervals :
       /\ t.kind = "poll" /\ t.id = hook.pollRef
       /\ BagIn([run |-> t.run, status |-> "error"], hook.inflight)
  /\ \E t \in hook.intervals : t.kind = "elapsed" /\ t.id = hook.timerRef

\* this step is the catch of launch: a creation ended and no run was made
CreationFailed ==
  hook'.creating = hook.creating - 1 /\ hook'.backend = hook.backend

\* C26: when run creation fails, launch ends with error set to the failure
\* message and loading false, starts no interval and leaves run as it was.
C26_FailedLaunchStartsNothing ==
  [][CreationFailed /\ hook.mounted =>
       /\ hook'.error \in {Str(message) : message \in FailureMessages}
       /\ ~ hook'.loading
       /\ hook'.intervals = hook.intervals /\ hook'.nextTimer = hook.nextTimer
       /\ hook'.run = hook.run]_vars

\* the first launch failed: an error is shown, nothing runs, no run is shown
C26_Witness ==
  /\ hook.mounted
  /\ hook.error = Str("Upload failed (500): ")
  /\ ~ hook.loading
  /\ hook.creating = 0
  /\ hook.intervals = {} /\ hook.nextTimer = 1
  /\ ~ hook.run.present

\* the active intervals of a kind
Active(kind) == {t \in hook.intervals : t.kind = kind}

\* C27: at most one poll timer and at most one elapsed timer are active,
\* and every active timer is the one its ref holds.
C27_OneTimerEach ==
  /\ Cardinality(Active("poll")) <= 1
  /\ Cardinality(Active("elapsed")) <= 1
  /\ \A t \in Active("poll") : t.id = hook.pollRef
  /\ \A t \in Active("elapsed") : t.id = hook.timerRef


\* a launch is being monitored: it was created and nothing ended it
Monitoring == hook.mounted /\ hook.loading /\ hook.creating = 0

\* the poll timers that belong to run n
PollTimersOf(n) == {t \in TimersOf(n) : t.kind = "poll"}

\* C23: while a launch is being monitored the poll timer pollRef holds is
\* active; and a run whose terminal response has been processed is polled,
\* if at all, by the timer pollRef holds, the only one the hook can still
\* clear, so that its polling can stop.
C23_PollingEnds ==
  /\ Monitoring => \E t \in Active("poll") : t.id = hook.pollRef
  /\ \A n \in hook.done : \A t \in PollTimersOf(n) : t.id = hook.pollRef


-----------------------------------------------------------------------------
(* Further properties of VisualizationPanel, checked under SpecPanel *)

\* C29: a response that settles after its effect was cleaned up, by an
\* unmount or a change of pipelineId, changes neither plots nor loading; a
\* cleaned-up effect has no timer pending, and every fetch that goes out
\* belongs to the effect that is running on a mounted panel.
C29_StaleResponsesDiscarded ==
  /\ [](panel.timer => Live)
  /\ [][\A f \in panel.inflight :
          f \notin panel'.inflight /\ f.effect \in panel.cancelled =>
            panel'.plots = panel.plots /\ panel'.loading = panel.loading]_vars
  /\ [][\A f \in panel'.inflight \ panel.inflight :
          panel'.mounted /\ f.effect = panel'.effect
            /\ f.effect \notin panel'.cancelled]_vars

\* the panel moved to another pipeline; the fetch of the first one settled
\* after that and the spinner, which only the new fetch may end, still turns
C29_Witness ==
  /\ panel.mounted /\ panel.effect = 2 /\ 1 \in panel.cancelled
  /\ \A f \in panel.inflight : f.effect = 2
  /\ panel.loading /\ panel.plots = <<>>


-----------------------------------------------------------------------------
(* Further properties of startPipeline, checked under SpecCall *)

\* the positions in call.sent of the requests to url
SentTo(url) == {i \in 1..Len(call.sent) : call.sent[i].url = url}

\* uploadDataset resolved: its answer is at hand
Uploaded == call.upload.path # ""

\* C30: with a file supplied, a run-creation request is sent only once the
\* upload has succeeded, after the upload request, and carries the path the
\* upload returned; when the upload failed no run-creation request is sent.
C30_CreateAfterUpload ==
  /\ call.file # Undefined =>
       \A i \in SentTo("/api/v1/pipelines") :
         /\ Uploaded
         /\ \E j \in SentTo("/api/v1/datasets/upload") : j < i
         /\ call.sent[i].body.dataset_path = call.upload.path
  /\ call.pc = "rejected" /\ ~ Uploaded /\ call.file # Undefined =>
       SentTo("/api/v1/pipelines") = {}

\* a file was uploaded and the run was created on the path of the upload
C30_Witness ==
  /\ call.pc = "resolved"
  /\ call.file = Str("data.parquet")
  /\ Len(call.sent) = 2
  /\ call.sent[1].url = "/api/v1/datasets/upload"
  /\ call.sent[2].body.dataset_path = "/tmp/ml-pipeline/uploads/data.parquet"

====
